---- MODULE Spec2Model ----
(***************************************************************************)
(* Model of pwiz/data/mziddata/MascotReader_dummy.cpp: the MascotReader    *)
(* that is compiled in when Mascot support is disabled, together with the  *)
(* caller's output targets and the first-match reader registry that        *)
(* probes it.                                                              *)
(*                                                                         *)
(* Strings are TLA+ strings; prefix, substring and letter-case tests are   *)
(* computed character by character on the literal messages of the source.  *)
(***************************************************************************)
EXTENDS Integers, Sequences, FiniteSets, TLC

\* ------------------------------------------------------------------ bounds
MaxLen == 1        \* longest collection of handles a caller passes in
MaxReaders == 2    \* longest registry

\* ------------------------------------------------------------------ inputs
Filenames == {"a.mzid", "F001.dat"}
NativeHead == "<MzIdentML"
MascotHead == "MIME-Version: 1.0 (Generated by Mascot"
Heads == {NativeHead, MascotHead, ""}

Arities == {"MzIdentML", "MzIdentMLPtr", "vector"}

EmptyDoc == "<empty>"       \* a default-constructed MzIdentML
NullPtr == "<null>"         \* an MzIdentMLPtr that owns nothing
NoCall == "<none>"          \* history slot of a call that has not happened

\* --------------------------------------------------------- string helpers
IsPrefix(p, s) == Len(p) <= Len(s) /\ SubSeq(s, 1, Len(p)) = p

OccursAt(sub, s, i) ==
    i >= 1 /\ i + Len(sub) - 1 <= Len(s) /\ SubSeq(s, i, i + Len(sub) - 1) = sub

Contains(s, sub) == \E i \in 1..(Len(s) + 1) : OccursAt(sub, s, i)

LowerChar(c) ==
    CASE c = "A" -> "a" [] c = "B" -> "b" [] c = "C" -> "c" [] c = "D" -> "d"
      [] c = "E" -> "e" [] c = "F" -> "f" [] c = "G" -> "g" [] c = "H" -> "h"
      [] c = "I" -> "i" [] c = "J" -> "j" [] c = "K" -> "k" [] c = "L" -> "l"
      [] c = "M" -> "m" [] c = "N" -> "n" [] c = "O" -> "o" [] c = "P" -> "p"
      [] c = "Q" -> "q" [] c = "R" -> "r" [] c = "S" -> "s" [] c = "T" -> "t"
      [] c = "U" -> "u" [] c = "V" -> "v" [] c = "W" -> "w" [] c = "X" -> "x"
      [] c = "Y" -> "y" [] c = "Z" -> "z" [] OTHER -> c

RECURSIVE ToLower(_)
ToLower(s) ==
    IF s = "" THEN ""
    ELSE LowerChar(SubSeq(s, 1, 1)) \o ToLower(SubSeq(s, 2, Len(s)))

\* "no" somewhere before "support enabled"
SaysNoSupportEnabled(s) ==
    \E i \in 1..Len(s) :
        /\ OccursAt("no", s, i)
        /\ \E j \in (i + 2)..Len(s) : OccursAt("support enabled", s, j)

\* ------------------------------------------------------- call outcomes
Return(v) == [kind |-> "return", value |-> v, type |-> "", what |-> ""]
Throw(t, w) == [kind |-> "throw", value |-> "", type |-> t, what |-> w]
Void == "void"

VARIABLES
    reader,       \* the MascotReader object
    registry,     \* the reader list, in registration order
    result,       \* the caller's MzIdentML
    resultPtr,    \* the caller's MzIdentMLPtr
    results,      \* the caller's std::vector<MzIdentMLPtr>
    last,         \* the call that has just finished and how it ended
    identifyLog,  \* at most one earlier identify call, kept for comparison
    firstWhat,    \* per arity, the message of the first direct read
    firstType     \* what the first getType call returned

vars == <<reader, registry, result, resultPtr, results, last,
          identifyLog, firstWhat, firstType>>

targets == <<result, resultPtr, results>>

\* ------------------------------------------------------- MascotReader
MascotReader_ctor == [constructed |-> TRUE]

identify_claims_mascot(filename, head) ==
    IF Contains(head, "Mascot") THEN Return("Mascot") ELSE Return("")

identify_claims_dat(filename, head) ==
    IF Contains(filename, ".dat") THEN Return("Mascot") ELSE Return("")

identify_throws(filename, head) ==
    IF head = "" THEN Throw("runtime_error", "[MascotReader::identify] empty header.")
    ELSE Return("")

MascotReader_identify(filename, head) == Return("")

read_MzIdentML_returns(filename, head, target) ==
    [out |-> Return(Void), target |-> target]

MascotReader_read_MzIdentML(filename, head, target) ==
    [out |-> Throw("runtime_error",
                   "[MascotReader::identify] no mascot support enabled."),
     target |-> target]

read_MzIdentMLPtr_disabled_after_failure(filename, head, target) ==
    [out |-> IF firstWhat["MzIdentMLPtr"] = NoCall
             THEN Throw("runtime_error",
                        "[MascotReader::read] no mascot support enabled.")
             ELSE Throw("runtime_error",
                        "[MascotReader::read] reader is in a failed state."),
     target |-> target]

read_MzIdentMLPtr_not_implemented(filename, head, target) ==
    [out |-> Throw("runtime_error", "[MascotReader::read] not implemented."),
     target |-> target]

MascotReader_read_MzIdentMLPtr(filename, head, target) ==
    [out |-> Throw("runtime_error",
                   "[MascotReader::read] no mascot support enabled."),
     target |-> target]

read_vector_clears(filename, head, target) ==
    [out |-> Throw("runtime_error",
                   "[MascotReader::read] no mascot support enabled."),
     target |-> <<>>]

read_vector_returns_empty(filename, head, target) ==
    [out |-> Return(Void), target |-> <<>>]

MascotReader_read_vector(filename, head, target) ==
    [out |-> Throw("runtime_error",
                   "[MascotReader::read] no mascot support enabled."),
     target |-> target]

MascotReader_getType == Return("mzIdentML")

MascotReader_read(arity, filename, head, target) ==
    CASE arity = "MzIdentML" -> MascotReader_read_MzIdentML(filename, head, target)
      [] arity = "MzIdentMLPtr" -> MascotReader_read_MzIdentMLPtr(filename, head, target)
      [] arity = "vector" -> MascotReader_read_vector(filename, head, target)

\* ------------------------------------------- other readers and registry
Readers == {"NativeReader", "MascotReader"}

DocOf(filename) == filename     \* the document a native file parses into

NativeReader_identify(filename, head) ==
    IF Contains(head, NativeHead) THEN Return("mzIdentML") ELSE Return("")

NativeReader_read(arity, filename, head, target) ==
    IF ~Contains(head, NativeHead)
    THEN [out |-> Throw("runtime_error",
                        "[NativeReader::read] malformed input: " \o filename),
          target |-> target]
    ELSE [out |-> Return(Void),
          target |-> IF arity = "vector" THEN Append(target, DocOf(filename))
                     ELSE DocOf(filename)]

Reader_identify(r, filename, head) ==
    IF r = "MascotReader" THEN MascotReader_identify(filename, head)
    ELSE NativeReader_identify(filename, head)

Reader_read(r, arity, filename, head, target) ==
    IF r = "MascotReader" THEN MascotReader_read(arity, filename, head, target)
    ELSE NativeReader_read(arity, filename, head, target)

Matches(r, filename, head) ==
    LET out == Reader_identify(r, filename, head)
    IN  out.kind = "return" /\ out.value # ""

RECURSIVE FirstMatch(_, _, _, _)
FirstMatch(reg, filename, head, i) ==
    IF i > Len(reg) THEN 0
    ELSE IF Matches(reg[i], filename, head) THEN i
    ELSE FirstMatch(reg, filename, head, i + 1)

ReaderList_identify(reg, filename, head) ==
    LET i == FirstMatch(reg, filename, head, 1)
    IN  [selected |-> i,
         out |-> IF i = 0 THEN Return("") ELSE Reader_identify(reg[i], filename, head)]

ReaderList_read(reg, arity, filename, head, target) ==
    LET i == FirstMatch(reg, filename, head, 1)
    IN  IF i = 0
        THEN [selected |-> 0, invoked |-> <<>>, target |-> target,
              out |-> Throw("runtime_error",
                            "[ReaderList::read] unrecognized format: " \o filename)]
        ELSE LET r == Reader_read(reg[i], arity, filename, head, target)
             IN  [selected |-> i, invoked |-> <<reg[i]>>, target |-> r.target,
                  out |-> r.out]

\* the failure kinds of the error taxonomy, told apart by message substring
FailureKind(what) ==
    IF Contains(what, "unrecognized format") THEN "UnrecognizedFormat"
    ELSE IF SaysNoSupportEnabled(what) THEN "FeatureDisabled"
    ELSE IF Contains(what, "malformed input") THEN "MalformedInput"
    ELSE IF Contains(what, "could not open") THEN "IOFailure"
    ELSE "Unknown"

RECURSIVE SeqsUpTo(_, _)
SeqsUpTo(S, n) ==
    IF n = 0 THEN {<<>>}
    ELSE LET shorter == SeqsUpTo(S, n - 1)
         IN  shorter \cup {Append(q, x) : q \in shorter, x \in S}

Registries == SeqsUpTo(Readers, MaxReaders) \ {<<>>}

\* ------------------------------------------------------------ state
Call(op, arity, filename, head, out, repeat, selected, invoked) ==
    [op |-> op, arity |-> arity, filename |-> filename, head |-> head,
     out |-> out, repeat |-> repeat, selected |-> selected, invoked |-> invoked]

Observed(out) == IF out.kind = "throw" THEN out.what ELSE "<returned>"

TargetOf(arity) ==
    CASE arity = "MzIdentML" -> result
      [] arity = "MzIdentMLPtr" -> resultPtr
      [] arity = "vector" -> results

Docs == {EmptyDoc, DocOf("a.mzid")}
Handles == {NullPtr, DocOf("a.mzid")}

NoHistory ==
    /\ last = Call("none", "", "", "", Return(Void), FALSE, 0, <<>>)
    /\ identifyLog = {}
    /\ firstWhat = [a \in Arities |-> NoCall]
    /\ firstType = NoCall

\* a constructed reader and a caller holding any output targets
Init ==
    /\ reader = MascotReader_ctor
    /\ registry = <<"MascotReader">>
    /\ result \in Docs
    /\ resultPtr \in Handles
    /\ results \in SeqsUpTo(Handles, MaxLen)
    /\ NoHistory

\* a built registry and a caller holding fresh output targets
InitRegistry ==
    /\ reader = MascotReader_ctor
    /\ registry \in Registries
    /\ result = EmptyDoc
    /\ resultPtr = NullPtr
    /\ results = <<>>
    /\ NoHistory

\* reader.identify(filename, head), called directly
Identify(filename, head) ==
    LET out == MascotReader_identify(filename, head) IN
    /\ last' = Call("identify", "", filename, head, out, identifyLog # {}, 0, <<>>)
    /\ \E keep \in BOOLEAN :
          identifyLog' = IF keep /\ identifyLog = {}
                         THEN {[filename |-> filename, head |-> head, out |-> out]}
                         ELSE identifyLog
    /\ UNCHANGED <<reader, registry, result, resultPtr, results, firstWhat, firstType>>

NoteFirst(arity, out) ==
    IF firstWhat[arity] = NoCall
    THEN [firstWhat EXCEPT ![arity] = Observed(out)]
    ELSE firstWhat

\* reader.read(filename, head, result), called directly
ReadMzIdentML(filename, head) ==
    LET r == MascotReader_read_MzIdentML(filename, head, result) IN
    /\ result' = r.target
    /\ last' = Call("read", "MzIdentML", filename, head, r.out,
                    firstWhat["MzIdentML"] # NoCall, 0, <<>>)
    /\ firstWhat' = NoteFirst("MzIdentML", r.out)
    /\ UNCHANGED <<reader, registry, resultPtr, results, identifyLog, firstType>>

\* reader.read(filename, head, resultPtr), called directly
ReadMzIdentMLPtr(filename, head) ==
    LET r == MascotReader_read_MzIdentMLPtr(filename, head, resultPtr) IN
    /\ resultPtr' = r.target
    /\ last' = Call("read", "MzIdentMLPtr", filename, head, r.out,
                    firstWhat["MzIdentMLPtr"] # NoCall, 0, <<>>)
    /\ firstWhat' = NoteFirst("MzIdentMLPtr", r.out)
    /\ UNCHANGED <<reader, registry, result, results, identifyLog, firstType>>

\* reader.read(filename, head, results), called directly
ReadVector(filename, head) ==
    LET r == MascotReader_read_vector(filename, head, results) IN
    /\ results' = r.target
    /\ last' = Call("read", "vector", filename, head, r.out,
                    firstWhat["vector"] # NoCall, 0, <<>>)
    /\ firstWhat' = NoteFirst("vector", r.out)
    /\ UNCHANGED <<reader, registry, result, resultPtr, identifyLog, firstType>>

\* reader.getType()
GetType ==
    LET out == MascotReader_getType IN
    /\ last' = Call("getType", "", "", "", out, firstType # NoCall, 0, <<>>)
    /\ firstType' = IF firstType = NoCall
                    THEN (IF out.kind = "return" THEN out.value ELSE "<threw>")
                    ELSE firstType
    /\ UNCHANGED <<reader, registry, result, resultPtr, results, identifyLog, firstWhat>>

\* the registry probes its readers in order and reports the first match
IdentifyDispatch(filename, head) ==
    LET d == ReaderList_identify(registry, filename, head) IN
    /\ last' = Call("identifyDispatch", "", filename, head, d.out, FALSE,
                    d.selected, <<>>)
    /\ UNCHANGED <<reader, registry, result, resultPtr, results,
                   identifyLog, firstWhat, firstType>>

\* the registry identifies, then delegates to the matched reader's read
ReadDispatch(arity, filename, head) ==
    LET d == ReaderList_read(registry, arity, filename, head, TargetOf(arity)) IN
    /\ arity = "vector" => Len(results) < MaxLen
    /\ result' = IF arity = "MzIdentML" THEN d.target ELSE result
    /\ resultPtr' = IF arity = "MzIdentMLPtr" THEN d.target ELSE resultPtr
    /\ results' = IF arity = "vector" THEN d.target ELSE results
    /\ last' = Call("readDispatch", arity, filename, head, d.out, FALSE,
                    d.selected, d.invoked)
    /\ UNCHANGED <<reader, registry, identifyLog, firstWhat, firstType>>

\* calls made on the reader directly
Next ==
    \/ \E f \in Filenames, h \in Heads : Identify(f, h)
    \/ \E f \in Filenames, h \in Heads : ReadMzIdentML(f, h)
    \/ \E f \in Filenames, h \in Heads : ReadMzIdentMLPtr(f, h)
    \/ \E f \in Filenames, h \in Heads : ReadVector(f, h)
    \/ GetType

Spec == Init /\ [][Next]_vars

\* calls made through the registry
NextRegistry ==
    \/ \E f \in Filenames, h \in Heads : IdentifyDispatch(f, h)
    \/ \E a \in Arities, f \in Filenames, h \in Heads : ReadDispatch(a, f, h)

SpecRegistry == InitRegistry /\ [][NextRegistry]_vars

\* ------------------------------------------------------------ properties
EmptyTarget(arity) ==
    CASE arity = "MzIdentML" -> result = EmptyDoc
      [] arity = "MzIdentMLPtr" -> resultPtr = NullPtr
      [] arity = "vector" -> results = <<>>

AllAritiesRead == \A a \in Arities : firstWhat[a] # NoCall

Registered(r) == \E i \in 1..Len(registry) : registry[i] = r

\* C1: identify returns the empty string for every filename and header,
\* a genuine Mascot file included; it never returns a format name.
C1_IdentifyReturnsEmpty ==
    last.op = "identify" => last.out = Return("")

C1_Witness ==
    /\ last.op = "identify"
    /\ last.filename = "F001.dat"
    /\ last.head = MascotHead

\* C2: each read overload ends by raising a runtime_error of the
\* FeatureDisabled kind; none returns normally, none raises another kind.
C2_ReadRaisesFeatureDisabled ==
    last.op = "read" =>
        /\ last.out.kind = "throw"
        /\ last.out.type = "runtime_error"
        /\ FailureKind(last.out.what) = "FeatureDisabled"

C2_Witness ==
    /\ last.op = "read"
    /\ AllAritiesRead

\* C3: the message raised by each read overload starts with
\* "[MascotReader::read]".
C3_MessageNamesRead ==
    last.op = "read" =>
        /\ last.out.kind = "throw"
        /\ IsPrefix("[MascotReader::read]", last.out.what)

\* C4: getType returns a name of the Mascot format, not "mzIdentML", and
\* the same value on every call.
C4_TypeNamesMascot ==
    last.op = "getType" =>
        /\ last.out.kind = "return"
        /\ Contains(ToLower(last.out.value), "mascot")
        /\ last.out.value # "mzIdentML"
        /\ last.out.value = firstType

\* C5: the message raised by every read overload contains "mascot" in any
\* letter case and "support enabled" preceded by "no".
C5_MessageNamesCapability ==
    last.op = "read" =>
        /\ last.out.kind = "throw"
        /\ Contains(ToLower(last.out.what), "mascot")
        /\ SaysNoSupportEnabled(last.out.what)

C5_Witness ==
    /\ last.op = "read"
    /\ last.out.kind = "throw"
    /\ AllAritiesRead
    /\ last.head = NativeHead

\* C6: a read that fails leaves the caller's document, handle and
\* collection exactly as they were before the call.
C6_TargetsUntouched ==
    [][(last'.op = "read" /\ last'.out.kind = "throw") => targets' = targets]_vars

C6_Witness ==
    /\ last.op = "read"
    /\ last.out.kind = "throw"
    /\ AllAritiesRead
    /\ result # EmptyDoc
    /\ resultPtr # NullPtr
    /\ results # <<>>

\* C7: identify returns without raising, changes neither the reader nor
\* any caller state, and repeats the result of an earlier call made with
\* the same filename and header.
C7_IdentifyPure ==
    [][last'.op = "identify" =>
          /\ last'.out.kind = "return"
          /\ reader' = reader
          /\ registry' = registry
          /\ targets' = targets
          /\ \A e \in identifyLog :
                (e.filename = last'.filename /\ e.head = last'.head)
                    => last'.out = e.out]_vars

C7_Witness ==
    /\ last.op = "identify"
    /\ last.repeat
    /\ \E e \in identifyLog :
          e.filename = last.filename /\ e.head = last.head

NonMatch(filename, head) == MascotReader_identify(filename, head) = Return("")

ReadSucceeded == last.out.kind = "return" /\ ~EmptyTarget(last.arity)

ReadFailedAs(kinds) ==
    last.out.kind = "throw" /\ FailureKind(last.out.what) \in kinds

\* C8 as stated: when identify reports non-match for a file, a direct read
\* of that file succeeds or fails as MalformedInput or IOFailure.
C8_ReadAfterNonMatch ==
    (last.op = "read" /\ NonMatch(last.filename, last.head)) =>
        ReadSucceeded \/ ReadFailedAs({"MalformedInput", "IOFailure"})

\* C8 amended: when identify reports non-match for a file, a direct read of
\* that file succeeds or fails as MalformedInput, IOFailure or
\* FeatureDisabled, and never returns normally with an empty target.
C8_ReadAfterNonMatchAmended ==
    (last.op = "read" /\ NonMatch(last.filename, last.head)) =>
        \/ ReadSucceeded
        \/ ReadFailedAs({"MalformedInput", "IOFailure", "FeatureDisabled"})

C8_Witness ==
    /\ last.op = "read"
    /\ last.arity = "vector"
    /\ results = <<>>
    /\ \E e \in identifyLog :
          /\ e.filename = last.filename
          /\ e.head = last.head
          /\ e.out = Return("")

NoOtherReaderClaims(filename, head) ==
    \A i \in 1..Len(registry) :
        registry[i] # "MascotReader" => ~Matches(registry[i], filename, head)

\* C9: with the stub registered, dispatch never selects it and never
\* invokes its read; read-dispatch of a file that no other registered
\* reader claims ends in UnrecognizedFormat with no read invoked, and no
\* dispatch ends in FeatureDisabled.
C9_DispatchSkipsStub ==
    (last.op \in {"identifyDispatch", "readDispatch"} /\ Registered("MascotReader")) =>
        /\ last.selected # 0 => registry[last.selected] # "MascotReader"
        /\ \A k \in 1..Len(last.invoked) : last.invoked[k] # "MascotReader"
        /\ ~ReadFailedAs({"FeatureDisabled"})
        /\ (last.op = "readDispatch" /\ NoOtherReaderClaims(last.filename, last.head)) =>
              /\ ReadFailedAs({"UnrecognizedFormat"})
              /\ last.invoked = <<>>

C9_Witness ==
    /\ last.op = "readDispatch"
    /\ Registered("MascotReader")
    /\ Registered("NativeReader")
    /\ last.filename = "F001.dat"
    /\ last.head = MascotHead
    /\ last.out.kind = "throw"

\* C10: after any sequence of calls, identify still returns the empty
\* string, a read of an arity raises the message the first read of that
\* arity raised, and getType returns what it first returned.
C10_Stateless ==
    /\ last.op = "identify" => last.out = Return("")
    /\ last.op = "read" =>
          /\ last.out.kind = "throw"
          /\ last.out.what = firstWhat[last.arity]
    /\ last.op = "getType" =>
          /\ last.out.kind = "return"
          /\ last.out.value = firstType

C10_Witness ==
    /\ last.op = "read"
    /\ last.repeat
    /\ AllAritiesRead
    /\ firstType # NoCall
    /\ identifyLog # {}
====
